---- MODULE Spec2Model ----
(***************************************************************************)
(* A model of nodeBrain's goal decomposition (topicCreate.py) and evidence *)
(* linking (Source_gen.py).                                                *)
(*                                                                         *)
(* Python strings are modelled as sequences of one-character strings, so   *)
(* that case folding, prefix/suffix tests, substring tests, splitting and  *)
(* replacement are computed character by character as the library does.    *)
(* Python's None is the empty sequence <<>> and a present value v is <<v>>. *)
(***************************************************************************)
EXTENDS Integers, Sequences, FiniteSets, TLC

VARIABLES
    \* --- the text functions, each applied to one input text ---
    text,             \* the input string (a title / query term / description)
    cleaned,          \* <<clean_topic_title(text)>> once computed
    keywords,         \* <<the set extract_keywords_from_description returned>>
    queries,          \* <<search_queries_to_try built for text>>
    \* --- generate_sources_for_topic and the search it runs ---
    topic_data,       \* [title, description]
    pc,               \* "idle", "start", "search", "returned", "done"
    phase,            \* "main" (topic title search) or "sub" (sub-topic search)
    sub_topics,       \* the sub-topic list in its iteration order
    sub_idx,          \* position of the current sub-topic in sub_topics
    search_queries,   \* search_queries_to_try of the running search
    q_idx,            \* position of current_search_term in search_queries
    found_articles,   \* fallback candidates collected by the running search
    wiki_info,        \* what the last search returned: <<>> or <<[title, url]>>
    sources,          \* the source list being assembled
    seen_urls,        \* urls already emitted
    requested,        \* terms sent to the search service by the running search
    responses,        \* what the service answered to each of them
    last_call,        \* the last external event: "none", "request" or "sleep"
    \* --- generate_learning_roadmap and its caller ---
    gen_pc,           \* "idle", "call", "returned", "printed"
    gen_requests,     \* generate_content calls made by this invocation
    roadmap,          \* the value generate_learning_roadmap returned
    raised,           \* an exception left generate_learning_roadmap
    reply,            \* what the generative collaborator answered
    printed           \* the lines written to standard output

text_vars == <<text, cleaned, keywords, queries>>
search_vars == <<topic_data, pc, phase, sub_topics, sub_idx, search_queries, q_idx,
                 found_articles, wiki_info, sources, seen_urls, requested,
                 responses, last_call>>
roadmap_vars == <<gen_pc, gen_requests, roadmap, raised, reply, printed>>
vars == <<text_vars, search_vars, roadmap_vars>>

-----------------------------------------------------------------------------
(* Python str primitives                                                   *)

UPPER == <<"A","B","C","D","E","F","G","H","I","J","K","L","M",
           "N","O","P","Q","R","S","T","U","V","W","X","Y","Z">>
LOWER == <<"a","b","c","d","e","f","g","h","i","j","k","l","m",
           "n","o","p","q","r","s","t","u","v","w","x","y","z">>

LowerTable ==
    [c \in {UPPER[i] : i \in 1..Len(UPPER)} |->
        LOWER[CHOOSE i \in 1..Len(UPPER) : UPPER[i] = c]]

lower_char(c) == IF c \in DOMAIN LowerTable THEN LowerTable[c] ELSE c

\* str.lower()
lower(s) == [i \in 1..Len(s) |-> lower_char(s[i])]

\* str.startswith / str.endswith
startswith(s, p) == Len(p) <= Len(s) /\ SubSeq(s, 1, Len(p)) = p
endswith(s, p) == Len(p) <= Len(s) /\ SubSeq(s, Len(s) - Len(p) + 1, Len(s)) = p

\* Python's "sub in s"
contains(sub, s) ==
    \E i \in 0..(Len(s) - Len(sub)) : SubSeq(s, i + 1, i + Len(sub)) = sub

\* str.find, 1-based; 0 when absent
find(s, old) ==
    IF contains(old, s)
    THEN CHOOSE i \in 1..(Len(s) - Len(old) + 1) :
            /\ SubSeq(s, i, i + Len(old) - 1) = old
            /\ \A j \in 1..(i - 1) : SubSeq(s, j, j + Len(old) - 1) # old
    ELSE 0

\* str.replace(old, "", 1) for a non-empty old
replace_first(s, old) ==
    IF find(s, old) = 0 THEN s
    ELSE SubSeq(s, 1, find(s, old) - 1) \o SubSeq(s, find(s, old) + Len(old), Len(s))

\* str.replace(old, "") for a non-empty old: every non-overlapping occurrence
RECURSIVE replace_all(_, _)
replace_all(s, old) ==
    IF find(s, old) = 0 THEN s
    ELSE SubSeq(s, 1, find(s, old) - 1)
         \o replace_all(SubSeq(s, find(s, old) + Len(old), Len(s)), old)

\* the characters \s matches and str.strip() removes
is_space(c) == c \in {" ", "\n", "\t", "\r"}

RECURSIVE lstrip(_)
lstrip(s) == IF s # <<>> /\ is_space(Head(s)) THEN lstrip(Tail(s)) ELSE s

RECURSIVE rstrip(_)
rstrip(s) ==
    IF s # <<>> /\ is_space(s[Len(s)]) THEN rstrip(SubSeq(s, 1, Len(s) - 1)) ELSE s

\* str.strip()
strip(s) == lstrip(rstrip(s))

-----------------------------------------------------------------------------
(* clean_topic_title                                                       *)

prefixes == <<
    <<"I","n","t","r","o","d","u","c","t","i","o","n"," ","t","o"," ">>,
    <<"T","h","e"," ">>,
    <<"A","n"," ">>,
    <<"A"," ">>,
    <<"F","u","n","d","a","m","e","n","t","a","l","s"," ","o","f"," ">>,
    <<"B","a","s","i","c","s"," ","o","f"," ">>,
    <<"A","d","v","a","n","c","e","d"," ">>,
    <<"C","o","n","c","e","p","t","s"," ","o","f"," ">> >>

\* re.sub(f"^{prefix}", "", s, flags=re.IGNORECASE)
re_sub_prefix(prefix, s) ==
    IF startswith(lower(s), lower(prefix))
    THEN SubSeq(s, Len(prefix) + 1, Len(s))
    ELSE s

\* a variant of the loop that stops at the first prefix that matched
RECURSIVE strip_prefixes_first_only(_, _)
strip_prefixes_first_only(s, i) ==
    IF i > Len(prefixes) THEN s
    ELSE IF re_sub_prefix(prefixes[i], s) # s THEN re_sub_prefix(prefixes[i], s)
    ELSE strip_prefixes_first_only(s, i + 1)

\* for prefix in prefixes: cleaned = re.sub(...), from the i-th prefix on
RECURSIVE strip_prefixes(_, _)
strip_prefixes(s, i) ==
    IF i > Len(prefixes) THEN s
    ELSE strip_prefixes(re_sub_prefix(prefixes[i], s), i + 1)

singular_exceptions == << <<"i","c","s">>, <<"e","s","i","s">>, <<"u","s">> >>

\* the naive plural-to-singular step
naive_singular(s) ==
    IF /\ endswith(lower(s), <<"s">>)
       /\ Len(s) > 2
       /\ ~endswith(lower(s), <<"s","s">>)
       /\ ~\E k \in 1..Len(singular_exceptions) :
              endswith(lower(s), singular_exceptions[k])
    THEN SubSeq(s, 1, Len(s) - 1)
    ELSE s

clean_topic_title(title) == naive_singular(strip(strip_prefixes(title, 1)))

-----------------------------------------------------------------------------
(* extract_keywords_from_description                                       *)

\* how many consecutive \s characters s has from position i on
RECURSIVE space_run(_, _)
space_run(s, i) ==
    IF i <= Len(s) /\ is_space(s[i]) THEN 1 + space_run(s, i + 1) ELSE 0

\* length of the match of  [;,]\s*|\s+and\s+  starting at position i; 0 if none
delim_len(s, i) ==
    IF s[i] \in {";", ","} THEN 1 + space_run(s, i + 1)
    ELSE IF is_space(s[i])
    THEN LET e == i + space_run(s, i)
         IN  IF /\ e + 3 <= Len(s)
                /\ SubSeq(s, e, e + 2) = <<"a","n","d">>
                /\ is_space(s[e + 3])
             THEN space_run(s, i) + 3 + space_run(s, e + 3)
             ELSE 0
    ELSE 0

RECURSIVE split_from(_, _, _)
split_from(s, start, i) ==
    IF i > Len(s) THEN <<SubSeq(s, start, Len(s))>>
    ELSE IF delim_len(s, i) > 0
    THEN <<SubSeq(s, start, i - 1)>>
         \o split_from(s, i + delim_len(s, i), i + delim_len(s, i))
    ELSE split_from(s, start, i + 1)

\* re.split(r'[;,]\s*|\s+and\s+', s)
re_split(s) == split_from(s, 1, 1)

\* re.sub(r'[\).\s]+$', '', part)
RECURSIVE re_sub_trailing(_)
re_sub_trailing(part) ==
    IF part # <<>> /\ (part[Len(part)] \in {")", "."} \/ is_space(part[Len(part)]))
    THEN re_sub_trailing(SubSeq(part, 1, Len(part) - 1))
    ELSE part

\* re.sub(r'^\s*\(', '', part)
re_sub_leading(part) ==
    IF lstrip(part) # <<>> /\ Head(lstrip(part)) = "(" THEN Tail(lstrip(part)) ELSE part

\* the body of "for part in parts": the fragment kept for part, or <<>> for none
clean_part(part) ==
    IF strip(part) = <<>> THEN <<>>
    ELSE LET p == re_sub_leading(re_sub_trailing(strip(part)))
         IN  IF p # <<>> /\ Len(p) > 3 THEN <<p>> ELSE <<>>

RECURSIVE first_pass(_)
first_pass(parts) ==
    IF parts = <<>> THEN <<>> ELSE clean_part(Head(parts)) \o first_pass(Tail(parts))

in_list(x, list) == \E i \in 1..Len(list) : list[i] = x

\* str.split(':', 1)[1]
after_colon(s) == SubSeq(s, find(s, <<":">>) + 1, Len(s))

\* the body of "for mp in more_parts", appending to kws
RECURSIVE second_pass(_, _)
second_pass(more_parts, kws) ==
    IF more_parts = <<>> THEN kws
    ELSE LET mp == strip(Head(more_parts))
         IN  second_pass(Tail(more_parts),
                 IF mp # <<>> /\ Len(mp) > 3 /\ ~in_list(mp, kws)
                 THEN Append(kws, mp) ELSE kws)

unwanted_keywords == <<
    <<"e","t","c">>,
    <<"a","n","d"," ","s","o"," ","o","n">>,
    <<"s","u","c","h"," ","a","s">>,
    <<"e",".","g",".">>,
    <<"i",".","e",".">>,
    <<"o","r">>,
    <<"i","n","t","r","o","d","u","c","t","i","o","n">>,
    <<"b","a","s","i","c","s">>,
    <<"a","d","v","a","n","c","e","d">> >>

\* len(kw.split()): the number of whitespace-separated words
RECURSIVE count_words(_)
count_words(s) ==
    IF lstrip(s) = <<>> THEN 0
    ELSE LET t == lstrip(s)
             n == CHOOSE k \in 1..Len(t) :
                     /\ \A j \in 1..k : ~is_space(t[j])
                     /\ (k = Len(t) \/ is_space(t[k + 1]))
         IN  1 + count_words(SubSeq(t, n + 1, Len(t)))

keep_keyword(kw) == ~in_list(lower(kw), unwanted_keywords) /\ count_words(kw) <= 5

\* the list before the final set(): both passes, in order
collected_keywords(description) ==
    LET kws == first_pass(re_split(description))
    IN  IF in_list(":", description)
        THEN second_pass(re_split(strip(after_colon(description))), kws)
        ELSE kws

\* returns the set behind list(set(keywords)); its list order is not fixed
extract_keywords_from_description(description) ==
    LET kws == collected_keywords(description)
    IN  {kws[i] : i \in {j \in 1..Len(kws) : keep_keyword(kws[j])}}

-----------------------------------------------------------------------------
(* the variant list of search_wikipedia_article                            *)

sfx_Theory == <<" ","T","h","e","o","r","y">>
sfx_theory == <<" ","t","h","e","o","r","y">>

\* lines 100-103: the "core concept" variant appended to the list q
add_core_concept(query_term, q) ==
    IF endswith(lower(query_term), sfx_theory)
    THEN LET core_concept ==
                 replace_first(replace_first(query_term, sfx_Theory), sfx_theory)
         IN  IF /\ core_concept # <<>>
                /\ lower(core_concept) # lower(query_term)
                /\ ~in_list(core_concept, q)
             THEN Append(q, core_concept)
             ELSE q
    ELSE q

\* lines 92-97: the term and its cleaned form
add_cleaned(query_term) ==
    LET cleaned_query_term == clean_topic_title(query_term)
    IN  IF /\ cleaned_query_term # <<>>
           /\ lower(cleaned_query_term) # lower(query_term)
           /\ ~in_list(cleaned_query_term, <<query_term>>)
        THEN <<query_term, cleaned_query_term>>
        ELSE <<query_term>>

search_queries_to_try(query_term) == add_core_concept(query_term, add_cleaned(query_term))

-----------------------------------------------------------------------------
(* Inputs of the text functions                                            *)

\* how many filler prefixes are stacked in front of a core in the input titles
MaxPrefixes == 2

Cores == {
    <<"A","t","o","m">>,
    <<"A","t","o","m","s">>,
    <<"M","a","t","r","i","c","e","s">>,
    <<"P","h","y","s","i","c","s">>,
    <<"G","l","a","s","s">>,
    <<"S","e","t"," ","T","h","e","o","r","y">>,
    <<"S","e","t"," ","t","h","e","o","r","y">>,
    <<"S","e","t"," ","T","H","E","O","R","Y">>,
    <<"T","h","e","o","r","y"," ","o","f"," ","S","e","t"," ","T","h","e","o","r","y">> }

PrefixPieces == {prefixes[i] : i \in 1..Len(prefixes)} \cup {<<"t","h","e"," ">>}

RECURSIVE Stacked(_)
Stacked(n) ==
    IF n = 0 THEN Cores
    ELSE Stacked(n - 1) \cup {p \o t : p \in PrefixPieces, t \in Stacked(n - 1)}

Titles == Stacked(MaxPrefixes)

desc_example == <<"C","o","v","e","r","s"," ","v","e","c","t","o","r"," ","s","p","a","c","e","s",","," ","m","a","t","r","i","c","e","s",","," ","a","n","d"," ","i","n","n","e","r"," ","p","r","o","d","u","c","t","s",".">>

Descriptions == {
    desc_example,
    <<"v","e","c","t","o","r"," ","s","p","a","c","e","s",","," ","m","a","t","r","i","c","e","s"," ","a","n","d"," ","i","n","n","e","r"," ","p","r","o","d","u","c","t","s">>,
    <<"T","o","p","i","c","s",":"," ","s","e","t","s",","," ","m","a","p","s",";"," ","e","t","c",".">>,
    <<"(","l","i","m","i","t","s",","," ","s","e","r","i","e","s",")"," ","a","n","d"," ","s","o"," ","o","n">>,
    <<"B","a","s","i","c","s",","," ","o","r"," ","l","o","o","p","s">>,
    <<>> }

-----------------------------------------------------------------------------
(* TextSpec: one text function applied to a chosen input                   *)

\* the state of the parts a specification does not run
TextIdle == text = <<>> /\ cleaned = <<>> /\ keywords = <<>> /\ queries = <<>>

SearchIdle ==
    /\ topic_data = [title |-> <<>>, description |-> <<>>]
    /\ pc = "idle" /\ phase = "main"
    /\ sub_topics = <<>> /\ sub_idx = 0
    /\ search_queries = <<>> /\ q_idx = 0
    /\ found_articles = <<>> /\ wiki_info = <<>>
    /\ sources = <<>> /\ seen_urls = {}
    /\ requested = <<>> /\ responses = <<>> /\ last_call = "none"

NoReply == [kind |-> "none", text |-> <<>>]

RoadmapIdle ==
    /\ gen_pc = "idle" /\ gen_requests = 0
    /\ roadmap = [t |-> "arr", v |-> <<>>] /\ raised = FALSE
    /\ reply = NoReply /\ printed = <<>>

TextInit ==
    /\ text \in Titles \cup Descriptions
    /\ cleaned = <<>>
    /\ keywords = <<>>
    /\ queries = <<>>
    /\ SearchIdle
    /\ RoadmapIdle

NoCallYet == cleaned = <<>> /\ keywords = <<>> /\ queries = <<>>

CallCleanTopicTitle ==
    /\ NoCallYet
    /\ cleaned' = <<clean_topic_title(text)>>
    /\ UNCHANGED <<text, keywords, queries, search_vars, roadmap_vars>>

CallExtractKeywords ==
    /\ NoCallYet
    /\ keywords' = <<extract_keywords_from_description(text)>>
    /\ UNCHANGED <<text, cleaned, queries, search_vars, roadmap_vars>>

CallBuildQueries ==
    /\ NoCallYet
    /\ queries' = <<search_queries_to_try(text)>>
    /\ UNCHANGED <<text, cleaned, keywords, search_vars, roadmap_vars>>

TextNext == CallCleanTopicTitle \/ CallExtractKeywords \/ CallBuildQueries

TextSpec == TextInit /\ [][TextNext]_vars

-----------------------------------------------------------------------------
(* Claims about the text functions (checked under TextSpec)                *)

\* the listed prefix text s begins with (case-insensitively), 0 for none;
\* no listed prefix begins another, so there is at most one
PrefixAt(s) ==
    IF \E i \in 1..Len(prefixes) : startswith(lower(s), lower(prefixes[i]))
    THEN CHOOSE i \in 1..Len(prefixes) : startswith(lower(s), lower(prefixes[i]))
    ELSE 0

DropPrefix(s) == SubSeq(s, Len(prefixes[PrefixAt(s)]) + 1, Len(s))

\* leading prefixes are removed as long as each is listed later than the one before
RECURSIVE DropIncreasing(_, _)
DropIncreasing(s, last) ==
    IF PrefixAt(s) > last THEN DropIncreasing(DropPrefix(s), PrefixAt(s)) ELSE s

\* C8 as amended: clean_topic_title removes the leading prefix, and then keeps
\* removing the remainder's leading prefix as long as that prefix is listed
\* later in the priority order than the one removed before it; a remainder's
\* prefix that is the same or listed earlier is kept.
C8_PrefixesStrippedInListOrder ==
    cleaned # <<>> => cleaned[1] = naive_singular(strip(DropIncreasing(text, 0)))

title_intro_the_atom == prefixes[1] \o prefixes[2] \o <<"A","t","o","m">>

C8_Witness ==
    /\ cleaned = << <<"A","t","o","m">> >>
    /\ text = title_intro_the_atom

\* C8 as stated: exactly one prefix is stripped, so when the remainder of a
\* title again begins with a listed prefix, that prefix is kept.
C8_ExactlyOnePrefixStripped ==
    (/\ cleaned # <<>>
     /\ PrefixAt(text) # 0
     /\ PrefixAt(DropPrefix(text)) # 0)
    => cleaned[1] = naive_singular(strip(DropPrefix(text)))

NoDuplicates(list) ==
    \A i, j \in 1..Len(list) : i # j => list[i] # list[j]

\* the variant list as the claim describes it
ClaimedQueries(term) ==
    LET c  == clean_topic_title(term)
        q2 == IF lower(c) # lower(term) THEN <<term, c>> ELSE <<term>>
        core == SubSeq(term, 1, Len(term) - Len(sfx_theory))
    IN  IF endswith(lower(term), sfx_theory) /\ ~in_list(core, q2)
        THEN Append(q2, core)
        ELSE q2

\* C9: the variant list is the term, its cleaned form if that differs
\* case-insensitively, and, for a term ending in " theory" in any letter case,
\* the term without that trailing suffix if distinct from the prior variants;
\* it has no duplicates and at most three entries.
C9_VariantList ==
    queries # <<>> =>
        /\ queries[1] = ClaimedQueries(text)
        /\ NoDuplicates(queries[1])
        /\ Len(queries[1]) <= 3

kw_vector_spaces == <<"v","e","c","t","o","r"," ","s","p","a","c","e","s">>
kw_matrices == <<"m","a","t","r","i","c","e","s">>
kw_inner_products == <<"i","n","n","e","r"," ","p","r","o","d","u","c","t","s">>

\* C10: for "Covers vector spaces, matrices, and inner products." the result
\* contains "vector spaces", "matrices" and "inner products", and contains no
\* stoplisted fragment and no fragment of 3 characters or fewer.
C10_ListSentenceKeywords ==
    (keywords # <<>> /\ text = desc_example) =>
        /\ {kw_vector_spaces, kw_matrices, kw_inner_products} \subseteq keywords[1]
        /\ \A kw \in keywords[1] :
              ~in_list(lower(kw), unwanted_keywords) /\ Len(kw) > 3

-----------------------------------------------------------------------------
(* search_wikipedia_article: the relevance scan of one response            *)

\* a variant of the relevance check that accepts equal titles only
is_exact_match(current_search_term, title) ==
    lower(current_search_term) = lower(title)

\* lines 132 and 137: equal, or one contains the other, ignoring case
is_strong_match(current_search_term, title) ==
    \/ lower(current_search_term) = lower(title)
    \/ contains(lower(current_search_term), lower(title))
    \/ contains(lower(title), lower(current_search_term))

\* "for i in range(len(data[1]))", lines 123-143, from result i on:
\* hit is the result returned at once, fallback what is appended to found_articles
RECURSIVE scan_from(_, _, _)
scan_from(current_search_term, data, i) ==
    IF i > Len(data.titles) THEN [hit |-> <<>>, fallback |-> <<>>]
    ELSE IF is_strong_match(current_search_term, data.titles[i])
    THEN [hit |-> <<[title |-> data.titles[i], url |-> data.urls[i]]>>,
          fallback |-> <<>>]
    ELSE LET rest == scan_from(current_search_term, data, i + 1)
         IN  [hit |-> rest.hit,
              fallback |-> IF i = 1
                           THEN <<[title |-> data.titles[1], url |-> data.urls[1]]>>
                           ELSE rest.fallback]

scan_results(current_search_term, data) == scan_from(current_search_term, data, 1)

-----------------------------------------------------------------------------
(* Inputs of the search: topics and what the search service may answer     *)

\* the most results one response of the search service holds
MaxResults == 2

Topics == {
    [title |-> <<"T","h","e"," ","S","e","t"," ","T","h","e","o","r","y">>,
     description |-> <<"S","e","t","s",","," ","m","a","p","s">>],
    [title |-> <<"A","t","o","m","s">>,
     description |-> <<"A","t","o","m"," ","m","o","d","e","l","s">>],
    [title |-> <<"A","t","o","m">>, description |-> <<>>] }

Catalog == {
    [title |-> <<"S","e","t">>, url |-> "wiki/Set"],
    [title |-> <<"A","t","o","m">>, url |-> "wiki/Atom"],
    [title |-> <<"Z","e","b","r","a">>, url |-> "wiki/Zebra"] }

\* ranked result lists: distinct catalog entries, at most MaxResults of them
RECURSIVE Rankings(_)
Rankings(n) ==
    IF n = 0 THEN {<<>>}
    ELSE Rankings(n - 1)
         \cup {Append(r, e) : r \in {x \in Rankings(n - 1) : Len(x) = n - 1},
                              e \in Catalog}

ResultLists ==
    {r \in Rankings(MaxResults) : \A i, j \in 1..Len(r) : i # j => r[i] # r[j]}

\* data = [search_term, [titles], [descriptions], [urls]], positionally aligned
DataOf(r) ==
    [ok |-> TRUE,
     titles |-> [i \in 1..Len(r) |-> r[i].title],
     urls |-> [i \in 1..Len(r) |-> r[i].url]]

\* requests.get / raise_for_status / json raised a RequestException
RequestFailed == [ok |-> FALSE, titles |-> <<>>, urls |-> <<>>]

Responses == {DataOf(r) : r \in ResultLists} \cup {RequestFailed}

\* the orders in which a set can be listed
Orderings(S) ==
    {o \in [1..Cardinality(S) -> S] : \A i, j \in 1..Cardinality(S) : i # j => o[i] # o[j]}

-----------------------------------------------------------------------------
(* SearchSpec: generate_sources_for_topic on one topic                     *)

SearchInit ==
    /\ topic_data \in Topics
    /\ pc = "start" /\ phase = "main"
    /\ sub_topics = <<>> /\ sub_idx = 0
    /\ search_queries = <<>> /\ q_idx = 0
    /\ found_articles = <<>> /\ wiki_info = <<>>
    /\ sources = <<>> /\ seen_urls = {}
    /\ requested = <<>> /\ responses = <<>> /\ last_call = "none"
    /\ TextIdle
    /\ RoadmapIdle

\* entering search_wikipedia_article(query_term): lines 92-105
BeginSearch(query_term) ==
    /\ search_queries' = search_queries_to_try(query_term)
    /\ q_idx' = 1
    /\ found_articles' = <<>>
    /\ requested' = <<>>
    /\ responses' = <<>>
    /\ pc' = "search"

\* lines 163-173: the main topic search is started
StartTopic ==
    /\ pc = "start"
    /\ sources' = <<>>
    /\ seen_urls' = {}
    /\ phase' = "main"
    /\ BeginSearch(topic_data.title)
    /\ UNCHANGED <<topic_data, sub_topics, sub_idx, wiki_info, last_call,
                   text_vars, roadmap_vars>>

\* a variant of the loop body in which a failed request ends the search
SearchVariantAbortOnError ==
    /\ pc = "search"
    /\ q_idx <= Len(search_queries)
    /\ \E data \in Responses :
          LET current_search_term == search_queries[q_idx]
              scan == scan_results(current_search_term, data)
          IN  /\ requested' = Append(requested, current_search_term)
              /\ responses' = Append(responses, data)
              /\ IF ~data.ok
                 THEN /\ wiki_info' = <<>>
                      /\ pc' = "returned"
                      /\ last_call' = "request"
                      /\ UNCHANGED <<q_idx, found_articles>>
                 ELSE IF scan.hit # <<>>
                 THEN /\ wiki_info' = scan.hit
                      /\ pc' = "returned"
                      /\ last_call' = "request"
                      /\ UNCHANGED <<q_idx, found_articles>>
                 ELSE /\ found_articles' = found_articles \o scan.fallback
                      /\ q_idx' = q_idx + 1
                      /\ last_call' = "sleep"
                      /\ UNCHANGED <<wiki_info, pc>>
    /\ UNCHANGED <<topic_data, phase, sub_topics, sub_idx, search_queries,
                   sources, seen_urls, text_vars, roadmap_vars>>

\* one iteration of "for current_search_term in search_queries_to_try",
\* lines 107-149: the request, the scan of its results, and the delay
SearchVariant ==
    /\ pc = "search"
    /\ q_idx <= Len(search_queries)
    /\ \E data \in Responses :
          LET current_search_term == search_queries[q_idx]
              scan == scan_results(current_search_term, data)
          IN  /\ requested' = Append(requested, current_search_term)
              /\ responses' = Append(responses, data)
              /\ IF ~data.ok
                 THEN \* except RequestException: continue (the sleep is skipped)
                      /\ q_idx' = q_idx + 1
                      /\ last_call' = "request"
                      /\ UNCHANGED <<wiki_info, pc, found_articles>>
                 ELSE IF scan.hit # <<>>
                 THEN \* return {"title": title, "url": url}
                      /\ wiki_info' = scan.hit
                      /\ pc' = "returned"
                      /\ last_call' = "request"
                      /\ UNCHANGED <<q_idx, found_articles>>
                 ELSE \* no strong match: time.sleep(API_CALL_DELAY)
                      /\ found_articles' = found_articles \o scan.fallback
                      /\ q_idx' = q_idx + 1
                      /\ last_call' = "sleep"
                      /\ UNCHANGED <<wiki_info, pc>>
    /\ UNCHANGED <<topic_data, phase, sub_topics, sub_idx, search_queries,
                   sources, seen_urls, text_vars, roadmap_vars>>

\* a variant of the fallback that returns the candidate collected last
SearchExhaustedLastCandidate ==
    /\ pc = "search"
    /\ q_idx > Len(search_queries)
    /\ wiki_info' = IF found_articles # <<>>
                    THEN <<found_articles[Len(found_articles)]>> ELSE <<>>
    /\ pc' = "returned"
    /\ UNCHANGED <<topic_data, phase, sub_topics, sub_idx, search_queries, q_idx,
                   found_articles, sources, seen_urls, requested, responses,
                   last_call, text_vars, roadmap_vars>>

\* lines 151-156: every variant was tried without a strong match
SearchExhausted ==
    /\ pc = "search"
    /\ q_idx > Len(search_queries)
    /\ wiki_info' = IF found_articles # <<>> THEN <<found_articles[1]>> ELSE <<>>
    /\ pc' = "returned"
    /\ UNCHANGED <<topic_data, phase, sub_topics, sub_idx, search_queries, q_idx,
                   found_articles, sources, seen_urls, requested, responses,
                   last_call, text_vars, roadmap_vars>>

\* a variant of the emission that does not look at seen_urls
emit_unchecked(info, score, context) ==
    IF info # <<>>
    THEN /\ sources' = Append(sources,
                [url |-> info[1].url, type |-> "Wikipedia Article",
                 title |-> info[1].title, relevance_score |-> score,
                 context_for_topic |-> context])
         /\ seen_urls' = seen_urls \cup {info[1].url}
    ELSE UNCHANGED <<sources, seen_urls>>

\* lines 174-182 and 194-202: the match is emitted unless its url was seen
emit(info, score, context) ==
    IF info # <<>> /\ info[1].url \notin seen_urls
    THEN /\ sources' = Append(sources,
                [url |-> info[1].url, type |-> "Wikipedia Article",
                 title |-> info[1].title, relevance_score |-> score,
                 context_for_topic |-> context])
         /\ seen_urls' = seen_urls \cup {info[1].url}
    ELSE UNCHANGED <<sources, seen_urls>>

\* lines 173-193: the main search returned; sub-topics are extracted and the
\* first sub-topic search is started
HandleMain ==
    /\ pc = "returned"
    /\ phase = "main"
    /\ emit(wiki_info, "0.9", topic_data.title)
    /\ \E order \in Orderings(
              IF topic_data.description # <<>>
              THEN extract_keywords_from_description(topic_data.description)
              ELSE {}) :
          /\ sub_topics' = order
          /\ IF order # <<>>
             THEN /\ phase' = "sub"
                  /\ sub_idx' = 1
                  /\ BeginSearch(order[1])
             ELSE /\ pc' = "done"
                  /\ UNCHANGED <<phase, sub_idx, search_queries, q_idx,
                                 found_articles, requested, responses>>
    /\ UNCHANGED <<topic_data, wiki_info, last_call, text_vars, roadmap_vars>>

\* lines 191-208: a sub-topic search returned; the next one is started, or
\* the source list is returned
HandleSub ==
    /\ pc = "returned"
    /\ phase = "sub"
    /\ emit(wiki_info, "0.8", sub_topics[sub_idx])
    /\ IF sub_idx < Len(sub_topics)
       THEN /\ sub_idx' = sub_idx + 1
            /\ BeginSearch(sub_topics[sub_idx + 1])
       ELSE /\ pc' = "done"
            /\ UNCHANGED <<sub_idx, search_queries, q_idx, found_articles,
                           requested, responses>>
    /\ UNCHANGED <<topic_data, phase, sub_topics, wiki_info, last_call,
                   text_vars, roadmap_vars>>

SearchNext ==
    StartTopic \/ SearchVariant \/ SearchExhausted \/ HandleMain \/ HandleSub

SearchSpec == SearchInit /\ [][SearchNext]_vars

-----------------------------------------------------------------------------
(* Claims about the search and the source list (checked under SearchSpec)  *)

\* a strong match as the glossary defines it
StrongMatch(term, title) ==
    \/ lower(term) = lower(title)
    \/ \E i \in 0..(Len(title) - Len(term)) :
          SubSeq(lower(title), i + 1, i + Len(term)) = lower(term)
    \/ \E i \in 0..(Len(term) - Len(title)) :
          SubSeq(lower(term), i + 1, i + Len(title)) = lower(title)

StrongRanks(k) ==
    {i \in 1..Len(responses[k].titles) : StrongMatch(requested[k], responses[k].titles[i])}

Min(S) == CHOOSE x \in S : \A y \in S : x <= y

ResultAt(k, i) == [title |-> responses[k].titles[i], url |-> responses[k].urls[i]]

\* the requests of the running search that returned at least one result
NonEmpty == {k \in 1..Len(responses) : Len(responses[k].titles) > 0}

SourceUrls == {sources[i].url : i \in 1..Len(sources)}

\* C1: the source list never holds two entries with the same url, and
\* seen_urls is exactly the set of urls emitted so far.
C1_UrlsUnique ==
    /\ \A i, j \in 1..Len(sources) : i # j => sources[i].url # sources[j].url
    /\ seen_urls = SourceUrls

\* a sub-topic search returned the url the main search had emitted, and the
\* list returned holds it once
C1_Witness ==
    /\ pc = "done"
    /\ phase = "sub"
    /\ Len(sources) = 1
    /\ sources[1].context_for_topic = topic_data.title
    /\ wiki_info # <<>>
    /\ wiki_info[1].url = sources[1].url

\* C2: once a result of variant k is a strong match, that result is returned
\* and no request is issued for a later variant; when the first variant's top
\* result equals the variant, the whole search makes exactly one request.
C2_StrongMatchShortCircuits ==
    /\ \A k \in 1..Len(responses) :
          StrongRanks(k) # {} =>
              /\ k = Len(requested)
              /\ pc # "search"
              /\ wiki_info = <<ResultAt(k, Min(StrongRanks(k)))>>
    /\ (/\ Len(responses) >= 1
        /\ Len(responses[1].titles) >= 1
        /\ lower(responses[1].titles[1]) = lower(requested[1]))
       => Len(requested) = 1

\* the first of three variants matched by containment and the search returned
C2_Witness ==
    /\ pc = "returned"
    /\ Len(search_queries) = 3
    /\ Len(requested) = 1
    /\ StrongRanks(1) # {}
    /\ lower(responses[1].titles[Min(StrongRanks(1))]) # lower(requested[1])
    /\ wiki_info # <<>>

\* C3: when no result of any variant is a strong match, the search returns the
\* top-ranked result of the earliest variant whose request returned results,
\* and it returns no match only when no request returned any result.
C3_FirstFallbackReturned ==
    (pc = "returned" /\ \A k \in 1..Len(responses) : StrongRanks(k) = {}) =>
        /\ NonEmpty # {} => wiki_info = <<ResultAt(Min(NonEmpty), 1)>>
        /\ NonEmpty = {} <=> wiki_info = <<>>

\* two variants returned different non-matching top results; the first is returned
C3_Witness ==
    /\ pc = "returned"
    /\ \A k \in 1..Len(responses) : StrongRanks(k) = {}
    /\ Cardinality(NonEmpty) >= 2
    /\ \E k \in NonEmpty : ResultAt(k, 1) # ResultAt(Min(NonEmpty), 1)
    /\ wiki_info = <<ResultAt(Min(NonEmpty), 1)>>

\* what a search returns when every failed request is read as an empty
\* result list: the first strong match, else the earliest top result, else none
ResultFailuresAsEmpty ==
    IF \E k \in 1..Len(responses) : StrongRanks(k) # {}
    THEN LET k == Min({j \in 1..Len(responses) : StrongRanks(j) # {}})
         IN  <<ResultAt(k, Min(StrongRanks(k)))>>
    ELSE IF NonEmpty # {} THEN <<ResultAt(Min(NonEmpty), 1)>>
    ELSE <<>>

\* C4: a failed request does not abort the search: the variants after it are
\* still requested in priority order (up to a strong match), and the result is
\* the one the search returns had the failed request returned an empty list.
C4_FailedRequestIsNotFatal ==
    (pc = "returned" /\ \E k \in 1..Len(responses) : ~responses[k].ok) =>
        /\ requested = SubSeq(search_queries, 1, Len(requested))
        /\ \/ Len(requested) = Len(search_queries)
           \/ StrongRanks(Len(requested)) # {}
        /\ wiki_info = ResultFailuresAsEmpty

\* the first request failed, a later one was made and the search found a match
C4_Witness ==
    /\ pc = "returned"
    /\ Len(responses) >= 2
    /\ ~responses[1].ok
    /\ wiki_info # <<>>

\* C5: every two consecutive search requests of one topic are separated by a
\* politeness delay: no request is issued when the last external event was a
\* request.
C5_DelayBetweenRequests ==
    [][Len(requested') = Len(requested) + 1 => last_call # "request"]_vars

-----------------------------------------------------------------------------
(* json.loads on the JSON the collaborator is asked for: arrays, objects   *)
(* and strings without escapes, with whitespace between tokens.  A parsed  *)
(* value is [t |-> "arr" | "obj" | "str", v |-> its content].              *)

ParseError == [ok |-> FALSE, val |-> [t |-> "none", v |-> <<>>], next |-> 0]
Parsed(value, next) == [ok |-> TRUE, val |-> value, next |-> next]

skip_ws(s, i) == i + space_run(s, i)

\* a string literal opening at position i: it runs to the next quote and
\* holds no control character
parse_string(s, i) ==
    LET n == find(SubSeq(s, i + 1, Len(s)), <<"\"">>)
        content == SubSeq(s, i + 1, i + n - 1)
    IN  IF n = 0 \/ \E k \in 1..Len(content) : content[k] \in {"\n", "\t", "\r"}
        THEN ParseError
        ELSE Parsed([t |-> "str", v |-> content], i + n + 1)

RECURSIVE parse_value(_, _), parse_elements(_, _, _), parse_members(_, _, _)

\* the elements of an array, the next one starting at position i
parse_elements(s, i, acc) ==
    LET r == parse_value(s, i)
        j == skip_ws(s, r.next)
    IN  IF ~r.ok \/ j > Len(s) THEN ParseError
        ELSE IF s[j] = "," THEN parse_elements(s, skip_ws(s, j + 1), Append(acc, r.val))
        ELSE IF s[j] = "]" THEN Parsed([t |-> "arr", v |-> Append(acc, r.val)], j + 1)
        ELSE ParseError

\* the members of an object, the next key starting at position i
parse_members(s, i, acc) ==
    IF i > Len(s) \/ s[i] # "\"" THEN ParseError
    ELSE LET key == parse_string(s, i)
             c == skip_ws(s, key.next)
         IN  IF ~key.ok \/ c > Len(s) \/ s[c] # ":" THEN ParseError
             ELSE LET r == parse_value(s, skip_ws(s, c + 1))
                      j == skip_ws(s, r.next)
                      members == Append(acc, [k |-> key.val.v, val |-> r.val])
                  IN  IF ~r.ok \/ j > Len(s) THEN ParseError
                      ELSE IF s[j] = "," THEN parse_members(s, skip_ws(s, j + 1), members)
                      ELSE IF s[j] = "}" THEN Parsed([t |-> "obj", v |-> members], j + 1)
                      ELSE ParseError

parse_value(s, i) ==
    IF i > Len(s) THEN ParseError
    ELSE IF s[i] = "["
    THEN LET j == skip_ws(s, i + 1)
         IN  IF j <= Len(s) /\ s[j] = "]"
             THEN Parsed([t |-> "arr", v |-> <<>>], j + 1)
             ELSE parse_elements(s, j, <<>>)
    ELSE IF s[i] = "{"
    THEN LET j == skip_ws(s, i + 1)
         IN  IF j <= Len(s) /\ s[j] = "}"
             THEN Parsed([t |-> "obj", v |-> <<>>], j + 1)
             ELSE parse_members(s, j, <<>>)
    ELSE IF s[i] = "\"" THEN parse_string(s, i)
    ELSE ParseError

\* json.loads(s): one value, whitespace around it, nothing else
json_loads(s) ==
    LET r == parse_value(s, skip_ws(s, 1))
    IN  IF r.ok /\ skip_ws(s, r.next) = Len(s) + 1 THEN r ELSE ParseError

-----------------------------------------------------------------------------
(* generate_learning_roadmap                                               *)

\* the backtick character (it cannot be written in a string of this module)
backtick == "U+0060"

fence_json == <<backtick, backtick, backtick, "j","s","o","n">>
fence == <<backtick, backtick, backtick>>
nl == <<"\n">>

\* lines 72-79: response.text.strip() and the removal of the fences
strip_fences(response_text) ==
    LET raw_json_string == strip(response_text)
    IN  IF startswith(raw_json_string, fence_json)
        THEN replace_all(replace_all(raw_json_string, fence_json \o nl), nl \o fence)
        ELSE IF startswith(raw_json_string, fence)
        THEN replace_all(replace_all(raw_json_string, fence \o nl), nl \o fence)
        ELSE raw_json_string

EmptyList == [t |-> "arr", v |-> <<>>]

\* a variant of the handler that catches parsing errors only
caught_json_errors_only(exc) == exc = "JSONDecodeError"

\* "except Exception": every error of the call, of response.text and of
\* json.loads is an Exception
caught_by_except(exc) == exc \in {"api_error", "no_text", "JSONDecodeError"}

\* lines 69-89 for one answer of the collaborator: the value returned, whether
\* an exception leaves the function, and what is printed
generate_learning_roadmap(answer) ==
    LET loaded == json_loads(strip_fences(answer.text))
        exc == IF answer.kind # "text" THEN <<answer.kind>>
               ELSE IF ~loaded.ok THEN <<"JSONDecodeError">>
               ELSE <<>>
    IN  IF exc = <<>>
        THEN [ret |-> loaded.val, raised |-> FALSE, log |-> <<>>]
        ELSE IF caught_by_except(exc[1])
        THEN [ret |-> EmptyList, raised |-> FALSE,
              log |-> <<"Error generating roadmap">>]
        ELSE [ret |-> EmptyList, raised |-> TRUE, log |-> <<>>]

-----------------------------------------------------------------------------
(* Inputs of the decomposition: what the collaborator may answer           *)

\* the most topics one answer of the collaborator lists
MaxTopics == 2

TopicIds == {<<"a">>, <<"b">>}

TopicObjects ==
    [id : TopicIds, prerequisites : {<<>>} \cup {<<i>> : i \in TopicIds}]

RECURSIVE TopicLists(_)
TopicLists(n) ==
    IF n = 0 THEN {<<>>}
    ELSE TopicLists(n - 1)
         \cup {Append(l, o) : l \in {x \in TopicLists(n - 1) : Len(x) = n - 1},
                              o \in TopicObjects}

\* list items joined by ", "
RECURSIVE join(_)
join(items) ==
    IF items = <<>> THEN <<>>
    ELSE IF Len(items) = 1 THEN items[1]
    ELSE items[1] \o <<",", " ">> \o join(Tail(items))

quoted(s) == <<"\"">> \o s \o <<"\"">>

\* the JSON text of a topic list
topic_json(o) ==
    <<"{","\"","i","d","\"",":"," ">> \o quoted(o.id)
    \o <<","," ","\"","p","r","e","r","e","q","u","i","s","i","t","e","s","\"",":"," ","[">>
    \o join([i \in 1..Len(o.prerequisites) |-> quoted(o.prerequisites[i])])
    \o <<"]","}">>

topics_json(l) == <<"[">> \o join([i \in 1..Len(l) |-> topic_json(l[i])]) \o <<"]">>

\* texts that are not JSON
NotJson == {
    <<"S","o","r","r","y",","," ","I"," ","c","a","n","n","o","t"," ","h","e","l","p",".">>,
    <<"[","{","\"","i","d","\"",":"," ","\"","a","\"">>,
    <<>> }

Bodies == {topics_json(l) : l \in TopicLists(MaxTopics)} \cup NotJson

\* the ways the collaborator wraps its answer
Wrapped(body) == {
    body,
    nl \o body \o <<" ", "\n">>,
    fence_json \o nl \o body \o nl \o fence,
    fence \o nl \o body \o nl \o fence \o nl,
    fence_json \o <<" ">> \o body \o fence,
    <<"H","e","r","e",":","\n">> \o fence_json \o nl \o body \o nl \o fence }

Answers ==
    {[kind |-> "text", text |-> w] : w \in UNION {Wrapped(b) : b \in Bodies}}
    \cup {[kind |-> "api_error", text |-> <<>>], [kind |-> "no_text", text |-> <<>>]}

-----------------------------------------------------------------------------
(* RoadmapSpec: the __main__ block of topicCreate.py                       *)

RoadmapInit ==
    /\ gen_pc = "call" /\ gen_requests = 0
    /\ roadmap = EmptyList /\ raised = FALSE
    /\ reply = NoReply /\ printed = <<>>
    /\ TextIdle
    /\ SearchIdle

\* line 93: roadmap = generate_learning_roadmap(goal), with the one
\* generate_content call it makes
CallGenerateLearningRoadmap ==
    /\ gen_pc = "call"
    /\ \E answer \in Answers :
          /\ reply' = answer
          /\ gen_requests' = gen_requests + 1
          /\ roadmap' = generate_learning_roadmap(answer).ret
          /\ raised' = generate_learning_roadmap(answer).raised
          /\ printed' = printed \o generate_learning_roadmap(answer).log
    /\ gen_pc' = "returned"
    /\ UNCHANGED <<text_vars, search_vars>>

\* lines 95-105: the roadmap is used as returned: each topic is printed
PrintRoadmap ==
    /\ gen_pc = "returned"
    /\ ~raised
    /\ printed' = printed \o
          (IF roadmap.v # <<>>
           THEN <<"Generated Learning Roadmap:">>
                \o [i \in 1..Len(roadmap.v) |-> "ID, Title, Description, Difficulty, Prerequisites"]
           ELSE <<"Could not generate a roadmap. Please try again or refine your input.">>)
    /\ gen_pc' = "printed"
    /\ UNCHANGED <<gen_requests, roadmap, raised, reply, text_vars, search_vars>>

RoadmapNext == CallGenerateLearningRoadmap \/ PrintRoadmap

RoadmapSpec == RoadmapInit /\ [][RoadmapNext]_vars

-----------------------------------------------------------------------------
(* Claims about goal decomposition (checked under RoadmapSpec)             *)

\* C6: generate_learning_roadmap never raises: when the generative call fails
\* or the text, after fence stripping, is not JSON, it returns the empty list;
\* it makes at most one generative request.
C6_FailureYieldsEmptyList ==
    /\ ~raised
    /\ gen_requests <= 1
    /\ (gen_pc # "call"
        /\ (reply.kind # "text" \/ ~json_loads(strip_fences(reply.text)).ok))
       => roadmap = EmptyList

\* a fenced answer that is not JSON came back, and so did a failed call
C6_Witness ==
    /\ gen_pc = "returned"
    /\ gen_requests = 1
    /\ roadmap = EmptyList
    /\ printed = <<"Error generating roadmap">>
    /\ \/ reply.kind = "api_error"
       \/ /\ reply.kind = "text"
          /\ startswith(reply.text, fence_json)
          /\ ~json_loads(strip_fences(reply.text)).ok

\* dict.get(key) on a parsed object whose keys are distinct
Member(obj, key) == obj.v[CHOOSE m \in 1..Len(obj.v) : obj.v[m].k = key].val

TopicId(i) == Member(roadmap.v[i], <<"i","d">>).v

TopicPrerequisites(i) ==
    LET p == Member(roadmap.v[i],
                    <<"p","r","e","r","e","q","u","i","s","i","t","e","s">>).v
    IN  {p[n].v : n \in 1..Len(p)}

\* a duplicated id, or a prerequisite that is not the id of an earlier topic
HasViolation ==
    \E i \in 1..Len(roadmap.v) :
        \/ \E j \in 1..(i - 1) : TopicId(j) = TopicId(i)
        \/ \E p \in TopicPrerequisites(i) : ~\E j \in 1..(i - 1) : TopicId(j) = p

\* what the program prints about a roadmap that it does not take to be faulty
OrdinaryOutput == {
    "Error generating roadmap",
    "Generated Learning Roadmap:",
    "ID, Title, Description, Difficulty, Prerequisites",
    "Could not generate a roadmap. Please try again or refine your input." }

\* C7: a topic sequence with a duplicated id, or with a prerequisite that is
\* not the id of an earlier topic, is flagged before it is used downstream.
C7_ViolationsFlagged ==
    (gen_pc = "printed" /\ HasViolation) =>
        \E k \in 1..Len(printed) : printed[k] \notin OrdinaryOutput

====
